---- MODULE Spec2Model ----
(***************************************************************************)
(* Plugin registry maintenance scripts of HolyFoxTeam/test:                *)
(*   - the Registry Merger   (scripts/merge-plugins.mjs and its CLI-flag   *)
(*     variant), which carries download counts of a published "store"      *)
(*     registry over to the authoritative "main" registry;                 *)
(*   - the Download-Count Reconciler (update-download-counts), which polls *)
(*     the releases API in batches of CONCURRENCY and writes the counts    *)
(*     back to plugins.v4.json.                                            *)
(*                                                                         *)
(* A JSON file is modelled as [kind, fmt, doc]: kind says whether the path *)
(* exists and parses, fmt is the whitespace layout of the bytes on disk,   *)
(* doc is the parsed value.  An absent object property is NoCount/NoTime   *)
(* (JavaScript undefined), which JSON.stringify leaves out again.          *)
(* Plugin ids are unique within a document (data model invariant) and are  *)
(* modelled as naturals.                                                   *)
(***************************************************************************)
EXTENDS Integers, Sequences, FiniteSets, TLC

\* ------------------------------------------------------------------ bounds
MaxPlugins == 2      \* longest plugin list of a main / store / registry document
MaxCount == 1        \* largest downloadCount stored in an input document
BatchPlugins == 6    \* registry size of the batching specification

\* ------------------------------------------------- program constants
CONCURRENCY == 5
RETRY_TIMES == 2
RETRY_DELAY == 1000
BeijingOffset == 8

NoCount == -1        \* property downloadCount / download_count is undefined
NoTime == -1         \* property updateTime is undefined
Running == -1        \* the process has not exited yet

\* ------------------------------------------------------------ documents
PluginIds == 1..(MaxPlugins + 1)
CountVals == {NoCount} \cup (0..MaxCount)
\* what main carries for downloadCount: nothing, or a number no store entry has
StaleCounts == {NoCount, MaxCount + 1}
\* the ids published so far: plugin 1 is new in main
StoreIds == PluginIds \ {1}

\* download URLs, as new URL(downloadUrl) sees them: does it parse, its hostname,
\* and the non-empty segments of its pathname
GitHubUrl == [parses |-> TRUE, hostname |-> "github.com", path |-> <<"o", "r", "releases">>]
OtherHostUrl == [parses |-> TRUE, hostname |-> "example.com", path |-> <<"o", "r", "x.zip">>]
ShortPathUrl == [parses |-> TRUE, hostname |-> "github.com", path |-> <<"o">>]
BadUrl == [parses |-> FALSE, hostname |-> "", path |-> <<>>]

UrlOf(id) == IF id % 2 = 0 THEN OtherHostUrl ELSE GitHubUrl

\* a plugin record of the authoritative list
MainRec(id, c) ==
  [id |-> id, version |-> "2.0.0", downloadUrl |-> UrlOf(id),
   downloadCount |-> c, updateTime |-> IF id % 2 = 0 THEN NoTime ELSE 3]

\* a plugin record of the previously published list
StoreRec(id, c) ==
  [id |-> id, version |-> "1.0.0", downloadUrl |-> UrlOf(id),
   downloadCount |-> c, updateTime |-> 2]

UniqueIds(s) == \A i, j \in 1..Len(s) : i # j => s[i].id # s[j].id

SeqsUpTo(S, n) == UNION {[1..k -> S] : k \in 0..n}

MainLists ==
  {s \in SeqsUpTo({MainRec(id, c) : id \in PluginIds, c \in StaleCounts}, MaxPlugins) : UniqueIds(s)}

StoreLists ==
  {s \in SeqsUpTo({StoreRec(id, c) : id \in StoreIds, c \in CountVals}, MaxPlugins) : UniqueIds(s)}

Doc(hasPlugins, plugins, meta) == [hasPlugins |-> hasPlugins, plugins |-> plugins, meta |-> meta]

EmptyDoc == Doc(FALSE, <<>>, "none")

DocFile(fmt, doc) == [kind |-> "doc", fmt |-> fmt, doc |-> doc]
AbsentFile == [kind |-> "absent", fmt |-> "none", doc |-> EmptyDoc]
MalformedFile == [kind |-> "malformed", fmt |-> "other", doc |-> EmptyDoc]

MainFiles ==
  {AbsentFile, MalformedFile, DocFile("other", Doc(FALSE, <<>>, "main-meta"))}
    \cup {DocFile("other", Doc(TRUE, s, "main-meta")) : s \in MainLists}

StoreFiles ==
  {AbsentFile, MalformedFile, DocFile("other", Doc(FALSE, <<>>, "store-meta"))}
    \cup {DocFile("other", Doc(TRUE, s, "store-meta")) : s \in StoreLists}

\* ------------------------------------------------------------------ state
VARIABLES
  \* Registry Merger
  mScript,      \* "env": scripts/merge-plugins.mjs, "cli": the --main/--store/--output variant
  mCli,         \* parameters given as command line flags
  mEnv,         \* parameters given as environment variables
  mainFile, storeFile, outputFile,
  mainData, storeData,
  mPc,          \* "start", "readMain", "readStore", "merge", "exited"
  mExit,        \* exit code of the merger
  mWarned       \* the "store missing or invalid" warning was logged

\* Download-Count Reconciler
VARIABLES
  pluginsFile,       \* plugins.v4.json on disk
  remote,            \* remote[k]: the body the API answers with for plugin k's repository
  updatePluginTime,  \* UPDATE_PLUGIN_TIME === 'true' of the current run
  runsLeft,          \* invocations of the script still to come
  run,               \* number of the current invocation
  pc,                \* "idle", "loop", "await", "apply", "exited"
  data,              \* the parsed document, mutated in place
  i,                 \* loop variable of the batch loop (0-based offset)
  fetchSt,           \* per plugin: the state of its getDownloadCountForPlugin call
  results,           \* results pushed so far, in plugin order
  now,               \* wall clock, in hours
  exitCode,
  writes,            \* writeFileSync calls of the current run
  fileBefore,        \* history: pluginsFile when the current run started
  prevResults,       \* history: results of the previous run
  stampedWith        \* history: beijingNow of the current run (NoTime before it is taken)

rvars == <<pluginsFile, remote, updatePluginTime, runsLeft, run, pc, data, i, fetchSt,
           results, now, exitCode, writes, fileBefore, prevResults, stampedWith>>

mvars == <<mScript, mCli, mEnv, mainFile, storeFile, outputFile, mainData, storeData,
           mPc, mExit, mWarned>>

vars == <<mvars, rvars>>

\* ------------------------------------------------------- Registry Merger
ParamNames == {"main", "store", "output"}

\* mainFile = values.main || process.env.MAIN_FILE, and so on
ResolvedParams(script, cli, env) == IF script = "cli" THEN cli \cup env ELSE env

ParamConfigs ==
  { <<"env", {}, {}>>, <<"env", {}, ParamNames>>,
    <<"cli", {"main", "output"}, {"store"}>>, <<"cli", {"main"}, {}>> }

\* readJSON: JSON.parse(readFileSync(file)); any failure logs and calls process.exit(1)
readJSONOk(file) == file.kind = "doc"

\* storePluginMap: id -> downloadCount ?? 0, a later entry overwriting an earlier one
RECURSIVE StoreMapFrom(_, _)
StoreMapFrom(plugins, map) ==
  IF plugins = <<>> THEN map
  ELSE LET p == Head(plugins)
           c == IF p.downloadCount = NoCount THEN 0 ELSE p.downloadCount
       IN StoreMapFrom(Tail(plugins),
                       [x \in DOMAIN map \cup {p.id} |-> IF x = p.id THEN c ELSE map[x]])

storePluginMap(store) ==
  IF store.hasPlugins THEN StoreMapFrom(store.plugins, [x \in {} |-> 0]) ELSE [x \in {} |-> 0]

\* (keeps a count main already carries)
MergeOneMainFirst(mainPlugin, map) ==
  IF mainPlugin.downloadCount # NoCount THEN mainPlugin
  ELSE [mainPlugin EXCEPT !.downloadCount =
          IF mainPlugin.id \in DOMAIN map THEN map[mainPlugin.id] ELSE 0]

\* (builds the record from the listed fields, forgetting updateTime)
MergeOneListed(mainPlugin, map) ==
  [id |-> mainPlugin.id, version |-> mainPlugin.version,
   downloadUrl |-> mainPlugin.downloadUrl,
   downloadCount |-> IF mainPlugin.id \in DOMAIN map THEN map[mainPlugin.id] ELSE 0,
   updateTime |-> NoTime]

\* merged = { ...mainPlugin }; merged.downloadCount = map.has(id) ? map.get(id) : 0
MergeOne(mainPlugin, map) ==
  [mainPlugin EXCEPT !.downloadCount =
     IF mainPlugin.id \in DOMAIN map THEN map[mainPlugin.id] ELSE 0]

\* (unshift instead of push)
mergedPluginsReversed(main, map) ==
  IF main.hasPlugins
  THEN [k \in 1..Len(main.plugins) |->
          MergeOne(main.plugins[Len(main.plugins) + 1 - k], map)]
  ELSE <<>>

mergedPlugins(main, map) ==
  IF main.hasPlugins
  THEN [k \in 1..Len(main.plugins) |-> MergeOne(main.plugins[k], map)]
  ELSE <<>>

\* mainData.plugins = mergedPlugins; JSON.stringify(mainData, null, 2)
MergedDoc(main, store) ==
  [main EXCEPT !.hasPlugins = TRUE, !.plugins = mergedPlugins(main, storePluginMap(store))]

\* ------------------------------------------- Download-Count Reconciler
Release(assets) == [hasAssets |-> TRUE, assets |-> assets]
NoAssetsRelease == [hasAssets |-> FALSE, assets |-> <<>>]

\* what a 2xx response of GET /repos/{owner}/{repo}/releases carries: a release list,
\* or a body that is no JSON release list
Body(releases) == [valid |-> TRUE, releases |-> releases]
GarbageBody == [valid |-> FALSE, releases |-> <<>>]

\* bodies the API may hold for a repository (totals 0, 1 and 2, and garbage)
BodySamples ==
  { Body(<<>>),
    Body(<<Release(<<1, NoCount>>), NoAssetsRelease>>),
    Body(<<Release(<<1>>), Release(<<0, 1>>)>>),
    GarbageBody }

Min(a, b) == IF a < b THEN a ELSE b

\* extractGitHubRepo: null unless the URL parses, is on github.com and has owner and repo
extractGitHubRepo(url) ==
  IF ~url.parses THEN [ok |-> FALSE, owner |-> "", repo |-> ""]
  ELSE IF url.hostname # "github.com" THEN [ok |-> FALSE, owner |-> "", repo |-> ""]
  ELSE IF Len(url.path) < 2 THEN [ok |-> FALSE, owner |-> "", repo |-> ""]
  ELSE [ok |-> TRUE, owner |-> url.path[1], repo |-> url.path[2]]

\* totalCount += asset.download_count || 0, over every asset of every release
RECURSIVE SumAssets(_)
SumAssets(assets) ==
  IF assets = <<>> THEN 0
  ELSE (IF Head(assets) = NoCount THEN 0 ELSE Head(assets)) + SumAssets(Tail(assets))

RECURSIVE TotalCount(_)
TotalCount(releases) ==
  IF releases = <<>> THEN 0
  ELSE (IF Head(releases).hasAssets THEN SumAssets(Head(releases).assets) ELSE 0)
         + TotalCount(Tail(releases))

\* getBeijingTime: now + 8 h, printed with the +08:00 offset
getBeijingTime(t) == t + BeijingOffset

\* a getDownloadCountForPlugin call that has not been made
IdleFetch ==
  [st |-> "idle", retry |-> RETRY_TIMES, attempts |-> 0, waited |-> 0,
   count |-> NoCount, error |-> "none"]

\* plugins.slice(i, i + CONCURRENCY), as 1-based positions
BatchMembers(start, n) == (start + 1)..Min(start + CONCURRENCY, n)

\* (as Promise.race would: resumes when some member has settled)
BatchSettledAny(fs, members) == \E k \in members : fs[k].st = "settled"

\* await Promise.all(...): resumes when every member of the batch has settled
BatchSettled(fs, members) == \A k \in members : fs[k].st = "settled"

\* if (retry > 0) in fetchWithRetry's catch
CanRetryOffByOne(retry) == retry >= 0

CanRetry(retry) == retry > 0

\* the call up to its first await: an unresolvable URL returns at once, otherwise
\* fetchWithRetry(url, options, RETRY_TIMES) issues the first request
StartFetch(plugin) ==
  IF extractGitHubRepo(plugin.downloadUrl).ok
  THEN [IdleFetch EXCEPT !.st = "fetching", !.attempts = 1]
  ELSE [IdleFetch EXCEPT !.st = "settled", !.error = "norepo"]

\* plugins.findIndex(p => p.id === id), 0 standing for -1
findIndex(plugins, id) ==
  IF \E k \in 1..Len(plugins) : plugins[k].id = id
  THEN CHOOSE k \in 1..Len(plugins) :
         plugins[k].id = id /\ \A j \in 1..(k - 1) : plugins[j].id # id
  ELSE 0

ApplyOneWith(acc, result, stamp, beijingNow, zeroOnError, alwaysChanged, stampFailed) ==
  LET idx == findIndex(acc.plugins, result.id) IN
  IF idx = 0 THEN acc
  ELSE
    LET old == acc.plugins[idx].downloadCount
        originalCount == IF old = NoCount \/ old = 0 THEN 0 ELSE old
        failed == result.error # "none"
        newCount == IF failed THEN (IF zeroOnError THEN 0 ELSE originalCount)
                    ELSE result.count
        differs == ~failed /\ (alwaysChanged \/ old # result.count)
        stamped == stamp /\ (stampFailed \/ ~failed)
        newTime == IF stamped THEN beijingNow ELSE acc.plugins[idx].updateTime
    IN [plugins |-> [acc.plugins EXCEPT ![idx] =
                       [@ EXCEPT !.downloadCount = newCount, !.updateTime = newTime]],
        hasAnyChange |-> acc.hasAnyChange \/ differs \/ stamped,
        downloadCountUpdated |-> acc.downloadCountUpdated + (IF differs THEN 1 ELSE 0)]

\* (count ?? 0 on the error path)
ApplyOneZeroOnError(acc, result, stamp, beijingNow) ==
  ApplyOneWith(acc, result, stamp, beijingNow, TRUE, FALSE, TRUE)

\* (every successful fetch counts as a change)
ApplyOneAlwaysChanged(acc, result, stamp, beijingNow) ==
  ApplyOneWith(acc, result, stamp, beijingNow, FALSE, TRUE, TRUE)

\* (the stamping moved into the success branch)
ApplyOneStampSucceeded(acc, result, stamp, beijingNow) ==
  ApplyOneWith(acc, result, stamp, beijingNow, FALSE, FALSE, FALSE)

\* the body of "for (const result of results)" for one result
ApplyOne(acc, result, stamp, beijingNow) ==
  LET idx == findIndex(acc.plugins, result.id) IN
  IF idx = 0 THEN acc
  ELSE
    LET old == acc.plugins[idx].downloadCount
        originalCount == IF old = NoCount \/ old = 0 THEN 0 ELSE old
        failed == result.error # "none"
        newCount == IF failed THEN originalCount ELSE result.count
        differs == ~failed /\ old # result.count
        newTime == IF stamp THEN beijingNow ELSE acc.plugins[idx].updateTime
    IN [plugins |-> [acc.plugins EXCEPT ![idx] =
                       [@ EXCEPT !.downloadCount = newCount, !.updateTime = newTime]],
        hasAnyChange |-> acc.hasAnyChange \/ differs \/ stamp,
        downloadCountUpdated |-> acc.downloadCountUpdated + (IF differs THEN 1 ELSE 0)]

\* (an error result ends the loop)
RECURSIVE ApplyAllAbortOnError(_, _, _, _)
ApplyAllAbortOnError(acc, rs, stamp, beijingNow) ==
  IF rs = <<>> \/ Head(rs).error # "none" THEN acc
  ELSE ApplyAllAbortOnError(ApplyOne(acc, Head(rs), stamp, beijingNow), Tail(rs),
                            stamp, beijingNow)

RECURSIVE ApplyAll(_, _, _, _)
ApplyAll(acc, rs, stamp, beijingNow) ==
  IF rs = <<>> THEN acc
  ELSE ApplyAll(ApplyOne(acc, Head(rs), stamp, beijingNow), Tail(rs), stamp, beijingNow)

ResultOf(plugin, fs) == [id |-> plugin.id, count |-> fs.count, error |-> fs.error]

ReconcilerIdle ==
  /\ pluginsFile = AbsentFile
  /\ remote = <<>>
  /\ updatePluginTime = FALSE
  /\ runsLeft = 0
  /\ run = 0
  /\ pc = "idle"
  /\ data = EmptyDoc
  /\ i = 0
  /\ fetchSt = <<>>
  /\ results = <<>>
  /\ now = 0
  /\ exitCode = Running
  /\ writes = 0
  /\ fileBefore = AbsentFile
  /\ prevResults = <<>>
  /\ stampedWith = NoTime

MergerIdle ==
  /\ mScript = "env" /\ mCli = {} /\ mEnv = {}
  /\ mainFile = AbsentFile /\ storeFile = AbsentFile /\ outputFile = AbsentFile
  /\ mainData = EmptyDoc /\ storeData = EmptyDoc
  /\ mPc = "exited" /\ mExit = 1 /\ mWarned = FALSE

\* registries of the reconciler: plugin k has id k
RegistryLists ==
  UNION {{s \in [1..n -> {MainRec(id, c) : id \in 1..n, c \in CountVals}] :
            \A k \in 1..n : s[k].id = k} : n \in 0..MaxPlugins}

RegistryFiles ==
  {AbsentFile, MalformedFile, DocFile("other", Doc(FALSE, <<>>, "registry-meta"))}
    \cup {DocFile("other", Doc(TRUE, s, "registry-meta")) : s \in RegistryLists}

\* a repository exists only for a plugin whose URL resolves
RemoteFor(plugins) ==
  {r \in [1..Len(plugins) -> BodySamples] :
     \A k \in 1..Len(plugins) :
        ~extractGitHubRepo(plugins[k].downloadUrl).ok => r[k] = Body(<<>>)}

InitReconcile ==
  /\ MergerIdle
  /\ pluginsFile \in RegistryFiles
  /\ remote \in RemoteFor(pluginsFile.doc.plugins)
  /\ updatePluginTime = FALSE
  /\ runsLeft = 2
  /\ run = 0
  /\ pc = "idle"
  /\ data = EmptyDoc
  /\ i = 0
  /\ fetchSt = <<>>
  /\ results = <<>>
  /\ now = 0
  /\ exitCode = Running
  /\ writes = 0
  /\ fileBefore = pluginsFile
  /\ prevResults = <<>>
  /\ stampedWith = NoTime

\* the large registries of the batching specification: every URL is a GitHub URL,
\* except that the first plugin's may be unusable
BatchLists ==
  {[k \in 1..BatchPlugins |->
      [MainRec(k, NoCount) EXCEPT !.downloadUrl = IF k = 1 THEN u ELSE GitHubUrl]] :
     u \in {GitHubUrl, ShortPathUrl, BadUrl}}

InitBatch ==
  /\ MergerIdle
  /\ pluginsFile \in {DocFile("other", Doc(TRUE, s, "registry-meta")) : s \in BatchLists}
  /\ remote = [k \in 1..BatchPlugins |->
                 IF k = 2 THEN GarbageBody
                 ELSE IF k % 3 = 0 THEN Body(<<Release(<<1, NoCount>>), NoAssetsRelease>>)
                 ELSE Body(<<Release(<<1>>), Release(<<0, 1>>)>>)]
  /\ updatePluginTime = FALSE
  /\ runsLeft = 1
  /\ run = 0
  /\ pc = "idle"
  /\ data = EmptyDoc
  /\ i = 0
  /\ fetchSt = <<>>
  /\ results = <<>>
  /\ now = 0
  /\ exitCode = Running
  /\ writes = 0
  /\ fileBefore = pluginsFile
  /\ prevResults = <<>>
  /\ stampedWith = NoTime

\* the script is invoked: updateDownloadCounts up to the batch loop.  A missing or
\* unparseable file throws to the top level (exit 1); an empty list returns (exit 0).
RunStart ==
  /\ pc \in {"idle", "exited"}
  /\ runsLeft > 0
  /\ runsLeft' = runsLeft - 1
  /\ run' = run + 1
  /\ now' = now + 1
  /\ updatePluginTime' \in BOOLEAN
  /\ fileBefore' = pluginsFile
  /\ prevResults' = results
  /\ results' = <<>>
  /\ writes' = 0
  /\ stampedWith' = NoTime
  /\ i' = 0
  /\ IF pluginsFile.kind # "doc"
     THEN /\ pc' = "exited" /\ exitCode' = 1
          /\ data' = EmptyDoc /\ fetchSt' = <<>>
     ELSE /\ data' = pluginsFile.doc
          /\ fetchSt' = [k \in 1..Len(pluginsFile.doc.plugins) |-> IdleFetch]
          /\ IF pluginsFile.doc.hasPlugins /\ Len(pluginsFile.doc.plugins) > 0
             THEN pc' = "loop" /\ exitCode' = Running
             ELSE pc' = "exited" /\ exitCode' = 0
  /\ UNCHANGED <<pluginsFile, remote>>
  /\ UNCHANGED mvars

\* batch.map(plugin => getDownloadCountForPlugin(plugin, token)): every member of
\* the slice is started before the loop awaits
StartBatch ==
  /\ pc = "loop"
  /\ fetchSt' = [k \in DOMAIN fetchSt |->
                   IF k \in BatchMembers(i, Len(data.plugins))
                   THEN StartFetch(data.plugins[k]) ELSE fetchSt[k]]
  /\ pc' = "await"
  /\ UNCHANGED <<pluginsFile, remote, updatePluginTime, runsLeft, run, data, i, results,
                 now, exitCode, writes, fileBefore, prevResults, stampedWith>>
  /\ UNCHANGED mvars

\* the response is 2xx and its body is a release list: the sum is the result
FetchOk(k) ==
  /\ pc = "await"
  /\ fetchSt[k].st = "fetching"
  /\ remote[k].valid
  /\ fetchSt' = [fetchSt EXCEPT ![k] =
                   [@ EXCEPT !.st = "settled", !.count = TotalCount(remote[k].releases)]]
  /\ UNCHANGED <<pluginsFile, remote, updatePluginTime, runsLeft, run, pc, data, i, results,
                 now, exitCode, writes, fileBefore, prevResults, stampedWith>>
  /\ UNCHANGED mvars

\* fetch rejects (transport) or !res.ok (status): caught inside fetchWithRetry, which
\* sleeps and retries while retry > 0 and rethrows otherwise
FetchFail(k) ==
  /\ pc = "await"
  /\ fetchSt[k].st = "fetching"
  /\ \E cause \in {"transport", "status"} :
       fetchSt' = [fetchSt EXCEPT ![k] =
                     IF CanRetry(@.retry)
                     THEN [@ EXCEPT !.st = "sleeping"]
                     ELSE [@ EXCEPT !.st = "settled", !.error = "request"]]
  /\ UNCHANGED <<pluginsFile, remote, updatePluginTime, runsLeft, run, pc, data, i, results,
                 now, exitCode, writes, fileBefore, prevResults, stampedWith>>
  /\ UNCHANGED mvars

\* the response is 2xx but res.json() rejects or the value is no release list: the
\* promise is returned without await, so fetchWithRetry's catch does not see it and
\* getDownloadCountForPlugin's catch turns it into an error result
FetchBadBody(k) ==
  /\ pc = "await"
  /\ fetchSt[k].st = "fetching"
  /\ ~remote[k].valid
  /\ fetchSt' = [fetchSt EXCEPT ![k] = [@ EXCEPT !.st = "settled", !.error = "body"]]
  /\ UNCHANGED <<pluginsFile, remote, updatePluginTime, runsLeft, run, pc, data, i, results,
                 now, exitCode, writes, fileBefore, prevResults, stampedWith>>
  /\ UNCHANGED mvars

\* setTimeout(resolve, RETRY_DELAY) fires: fetchWithRetry(url, options, retry - 1)
RetryWake(k) ==
  /\ pc = "await"
  /\ fetchSt[k].st = "sleeping"
  /\ fetchSt' = [fetchSt EXCEPT ![k] =
                   [@ EXCEPT !.st = "fetching", !.retry = @ - 1, !.attempts = @ + 1,
                             !.waited = @ + RETRY_DELAY]]
  /\ UNCHANGED <<pluginsFile, remote, updatePluginTime, runsLeft, run, pc, data, i, results,
                 now, exitCode, writes, fileBefore, prevResults, stampedWith>>
  /\ UNCHANGED mvars

\* Promise.all resolves: results.push(...batchResults); i += CONCURRENCY
CollectBatch ==
  /\ pc = "await"
  /\ BatchSettled(fetchSt, BatchMembers(i, Len(data.plugins)))
  /\ results' = results \o
       [j \in 1..Cardinality(BatchMembers(i, Len(data.plugins))) |->
          ResultOf(data.plugins[i + j], fetchSt[i + j])]
  /\ i' = i + CONCURRENCY
  /\ pc' = IF i + CONCURRENCY < Len(data.plugins) THEN "loop" ELSE "apply"
  /\ UNCHANGED <<pluginsFile, remote, updatePluginTime, runsLeft, run, data, fetchSt,
                 now, exitCode, writes, fileBefore, prevResults, stampedWith>>
  /\ UNCHANGED mvars

\* the rest of updateDownloadCounts: take the timestamp once, apply every result,
\* write the file when hasAnyChange, return (exit 0)
ApplyResults ==
  /\ pc = "apply"
  /\ LET beijingNow == getBeijingTime(now)
         acc == ApplyAll([plugins |-> data.plugins, hasAnyChange |-> FALSE,
                          downloadCountUpdated |-> 0],
                         results, updatePluginTime, beijingNow)
         newData == [data EXCEPT !.plugins = acc.plugins]
     IN /\ data' = newData
        /\ stampedWith' = beijingNow
        /\ IF acc.hasAnyChange
           THEN pluginsFile' = DocFile("indent2", newData) /\ writes' = writes + 1
           ELSE pluginsFile' = pluginsFile /\ writes' = writes
  /\ pc' = "exited"
  /\ exitCode' = 0
  /\ UNCHANGED <<remote, updatePluginTime, runsLeft, run, i, fetchSt, results, now,
                 fileBefore, prevResults>>
  /\ UNCHANGED mvars

InitMerge ==
  /\ \E cfg \in ParamConfigs : mScript = cfg[1] /\ mCli = cfg[2] /\ mEnv = cfg[3]
  /\ mainFile \in MainFiles
  /\ storeFile \in StoreFiles
  /\ outputFile = AbsentFile
  /\ mainData = EmptyDoc
  /\ storeData = Doc(TRUE, <<>>, "none")
  /\ mPc = "start"
  /\ mExit = Running
  /\ mWarned = FALSE
  /\ ReconcilerIdle

\* if (!mainFile || !storeFile || !outputFile) process.exit(1)
MergeCheckParams ==
  /\ mPc = "start"
  /\ IF ResolvedParams(mScript, mCli, mEnv) = ParamNames
     THEN mPc' = "readMain" /\ mExit' = mExit
     ELSE mPc' = "exited" /\ mExit' = 1
  /\ UNCHANGED <<mScript, mCli, mEnv, mainFile, storeFile, outputFile, mainData, storeData, mWarned>>
  /\ UNCHANGED rvars

\* const mainData = readJSON(mainFile)
MergeReadMain ==
  /\ mPc = "readMain"
  /\ IF readJSONOk(mainFile)
     THEN mainData' = mainFile.doc /\ mPc' = "readStore" /\ mExit' = mExit
     ELSE mainData' = mainData /\ mPc' = "exited" /\ mExit' = 1
  /\ UNCHANGED <<mScript, mCli, mEnv, mainFile, storeFile, outputFile, storeData, mWarned>>
  /\ UNCHANGED rvars

\* try { storeData = readJSON(storeFile) } catch { warn }: readJSON never throws,
\* it exits the process, so the catch block is not reached
MergeReadStore ==
  /\ mPc = "readStore"
  /\ IF readJSONOk(storeFile)
     THEN storeData' = storeFile.doc /\ mPc' = "merge" /\ mExit' = mExit
     ELSE storeData' = storeData /\ mPc' = "exited" /\ mExit' = 1
  /\ UNCHANGED <<mScript, mCli, mEnv, mainFile, storeFile, outputFile, mainData, mWarned>>
  /\ UNCHANGED rvars

\* build the map, merge, write the output file, fall off the end of the script
MergeWrite ==
  /\ mPc = "merge"
  /\ mainData' = MergedDoc(mainData, storeData)
  /\ outputFile' = DocFile("indent2", MergedDoc(mainData, storeData))
  /\ mPc' = "exited"
  /\ mExit' = 0
  /\ UNCHANGED <<mScript, mCli, mEnv, mainFile, storeFile, storeData, mWarned>>
  /\ UNCHANGED rvars

NextMerge == MergeCheckParams \/ MergeReadMain \/ MergeReadStore \/ MergeWrite

Init == InitReconcile

Next ==
  \/ RunStart
  \/ StartBatch
  \/ \E k \in DOMAIN fetchSt : FetchOk(k)
  \/ \E k \in DOMAIN fetchSt : FetchFail(k)
  \/ \E k \in DOMAIN fetchSt : FetchBadBody(k)
  \/ \E k \in DOMAIN fetchSt : RetryWake(k)
  \/ CollectBatch
  \/ ApplyResults

\* the reconciler, run twice in a row on a small registry
Spec == Init /\ [][Next]_vars

\* the reconciler, run once on a registry of more than one batch
SpecBatch == InitBatch /\ [][Next]_vars

\* the merger
SpecMerge == InitMerge /\ [][NextMerge]_vars

\* either script, each on its own files
InitScripts == InitMerge \/ InitReconcile
NextScripts == NextMerge \/ Next
SpecScripts == InitScripts /\ [][NextScripts]_vars

\* ================================================================ claims
MergeRan == mPc = "exited" /\ mainFile.kind = "doc"
             /\ ResolvedParams(mScript, mCli, mEnv) = ParamNames
MergeWrote == MergeRan /\ outputFile.kind = "doc"
MainPlugins == IF mainFile.doc.hasPlugins THEN mainFile.doc.plugins ELSE <<>>
StorePlugins == IF storeFile.kind = "doc" /\ storeFile.doc.hasPlugins
                THEN storeFile.doc.plugins ELSE <<>>
OutPlugins == outputFile.doc.plugins

\* the count a document's reader sees: an absent downloadCount reads as 0
CountValue(c) == IF c = NoCount THEN 0 ELSE c

\* C1: with the store document absent or not valid JSON the merger still exits 0,
\* having logged the warning and written main's entries, in order, each with
\* downloadCount 0.
C1_StoreFallback ==
  (MergeRan /\ storeFile.kind # "doc") =>
     /\ mExit = 0
     /\ mWarned
     /\ outputFile.kind = "doc"
     /\ Len(OutPlugins) = Len(MainPlugins)
     /\ \A k \in 1..Len(MainPlugins) :
           OutPlugins[k] = [MainPlugins[k] EXCEPT !.downloadCount = 0]

\* C2: every merged entry carries the count of the store entry with its id (0 when
\* that entry has none) and 0 when the store has no such entry; main's own count is
\* never the one written.
C2_CarryForward ==
  MergeWrote =>
    \A k \in 1..Min(Len(MainPlugins), Len(OutPlugins)) :
      LET X == MainPlugins[k]
          inStore == {j \in 1..Len(StorePlugins) : StorePlugins[j].id = X.id}
      IN /\ \A j \in inStore :
              OutPlugins[k].downloadCount = CountValue(StorePlugins[j].downloadCount)
         /\ inStore = {} => OutPlugins[k].downloadCount = 0

C2_Witness ==
  /\ MergeWrote
  /\ Len(MainPlugins) = 2
  /\ \E k \in 1..2, j \in 1..Len(StorePlugins) :
        /\ StorePlugins[j].id = MainPlugins[k].id
        /\ StorePlugins[j].downloadCount = MaxCount
        /\ MainPlugins[k].downloadCount = MaxCount + 1
        /\ OutPlugins[k].downloadCount = MaxCount
  /\ \E k \in 1..2 :
        /\ \A j \in 1..Len(StorePlugins) : StorePlugins[j].id # MainPlugins[k].id
        /\ MainPlugins[k].downloadCount = MaxCount + 1
        /\ OutPlugins[k].downloadCount = 0

\* C8: with a readable store the merged list has main's entries, in main's order,
\* with main's ids: nothing from the store is added, nothing of main is dropped or
\* repeated.
C8_MembershipOrder ==
  (MergeRan /\ storeFile.kind = "doc") =>
     /\ mExit = 0
     /\ outputFile.kind = "doc"
     /\ outputFile.doc.hasPlugins
     /\ Len(OutPlugins) = Len(MainPlugins)
     /\ \A k \in 1..Len(OutPlugins) : OutPlugins[k].id = MainPlugins[k].id

C8_Witness ==
  /\ MergeWrote
  /\ Len(MainPlugins) = 2
  /\ MainPlugins[1].id > MainPlugins[2].id
  /\ \E j \in 1..Len(StorePlugins) :
        \A k \in 1..Len(MainPlugins) : StorePlugins[j].id # MainPlugins[k].id
  /\ \E j \in 1..Len(StorePlugins) : StorePlugins[j].id = MainPlugins[1].id

\* ---------------------------------------------------------- reconciler
RunDone == pc = "exited" /\ run > 0 /\ fileBefore.kind = "doc"
Applied == RunDone /\ results # <<>>
Failed(k) == results[k].error # "none"
BeforePlugins == fileBefore.doc.plugins

\* C3: a plugin whose fetch yields an error (unresolvable URL, or a request that failed
\* on every attempt, or an unusable body) has the same downloadCount after the run as
\* before it, in the document and in the file, whether or not the file was written.
C3_FailurePreserved ==
  Applied =>
    \A k \in 1..Len(results) :
      Failed(k) =>
        /\ CountValue(data.plugins[k].downloadCount)
             = CountValue(BeforePlugins[k].downloadCount)
        /\ CountValue(pluginsFile.doc.plugins[k].downloadCount)
             = CountValue(BeforePlugins[k].downloadCount)

C3_Witness ==
  /\ Applied
  /\ writes = 1
  /\ \E k \in 1..Len(results) :
        /\ results[k].error = "request"
        /\ BeforePlugins[k].downloadCount = MaxCount
        /\ pluginsFile.doc.plugins[k].downloadCount = MaxCount
  /\ \E k \in 1..Len(results) : results[k].error = "norepo"

\* C4 as claimed: a second run that gets the same results as the first writes nothing
\* and leaves the file as it was, whatever the stamp-update-time flag.
SecondRunSame == RunDone /\ run = 2 /\ results = prevResults

C4_IdempotentAnyFlag ==
  SecondRunSame => (writes = 0 /\ pluginsFile = fileBefore)

\* C4 as amended: a second run without the stamp-update-time flag that gets the same
\* results as the first writes nothing and leaves the file as it was.
C4_IdempotentUnstamped ==
  (SecondRunSame /\ ~updatePluginTime) => (writes = 0 /\ pluginsFile = fileBefore)

C4_Witness ==
  /\ SecondRunSame
  /\ ~updatePluginTime
  /\ results # <<>>
  /\ \E k \in 1..Len(results) : results[k].error = "none" /\ results[k].count > 0
  /\ \E k \in 1..Len(results) : Failed(k)
  /\ pluginsFile.fmt = "indent2"
  /\ writes = 0

\* C5: a fetch whose every attempt failed made RETRY_TIMES + 1 requests, one
\* RETRY_DELAY apart, before it surfaced its error; a fetch that got a 2xx answer on
\* attempt k made k requests; a settled fetch makes no further request.
Attempted(f) == f.attempts = RETRY_TIMES - f.retry + 1
                  /\ f.attempts <= RETRY_TIMES + 1
                  /\ f.waited = (f.attempts - 1) * RETRY_DELAY

C5_RetryInv ==
  \A k \in DOMAIN fetchSt :
    /\ fetchSt[k].st \in {"fetching", "sleeping"} => Attempted(fetchSt[k])
    /\ (fetchSt[k].st = "settled" /\ fetchSt[k].error # "norepo") => Attempted(fetchSt[k])
    /\ (fetchSt[k].st = "settled" /\ fetchSt[k].error = "request") =>
          fetchSt[k].attempts = RETRY_TIMES + 1
    /\ (fetchSt[k].st = "settled" /\ fetchSt[k].error = "norepo") =>
          fetchSt[k].attempts = 0

C5_SettledStays ==
  \A k \in DOMAIN fetchSt :
    (fetchSt[k].st = "settled" /\ run' = run) => fetchSt'[k] = fetchSt[k]

\* C5 (retry bound): the counters above hold in every state and a settled fetch
\* stays as it is until the next invocation.
C5_RetryBound == []C5_RetryInv /\ [][C5_SettledStays]_vars

C5_Witness ==
  \E k \in DOMAIN fetchSt :
    /\ fetchSt[k].st = "settled"
    /\ fetchSt[k].error = "request"
    /\ fetchSt[k].attempts = RETRY_TIMES + 1
    /\ fetchSt[k].waited = RETRY_TIMES * RETRY_DELAY

\* C6: never more than CONCURRENCY requests in flight, and no call of a later batch
\* is started while a call of an earlier batch is unsettled (in flight or sleeping).
BatchOf(k) == (k - 1) \div CONCURRENCY
InFlight == {k \in DOMAIN fetchSt : fetchSt[k].st = "fetching"}
Unsettled == {k \in DOMAIN fetchSt : fetchSt[k].st \in {"fetching", "sleeping"}}

\* C6 (bounded concurrency with a batch barrier), over the sets above.
C6_BatchBarrier ==
  /\ Cardinality(InFlight) <= CONCURRENCY
  /\ Cardinality(Unsettled) <= CONCURRENCY
  /\ \A j, k \in DOMAIN fetchSt :
        (BatchOf(k) < BatchOf(j) /\ fetchSt[j].st # "idle") => fetchSt[k].st = "settled"

C6_Witness ==
  /\ Len(fetchSt) > CONCURRENCY
  /\ fetchSt[CONCURRENCY + 1].st = "fetching"
  /\ \E k \in 1..CONCURRENCY : fetchSt[k].st = "settled" /\ fetchSt[k].waited > 0
  /\ \E k \in 1..CONCURRENCY : fetchSt[k].st = "settled" /\ fetchSt[k].error = "request"

\* C7: whatever subset of the fetches fails, the run ends with exit code 0, every
\* plugin has been fetched, and every plugin whose fetch succeeded has the sum of
\* its repository's asset download counts.
C7_FailureIsolation ==
  /\ (run > 0 /\ fileBefore.kind = "doc") => exitCode \in {Running, 0}
  /\ RunDone =>
       /\ exitCode = 0
       /\ Len(results) = Len(data.plugins)
       /\ \A k \in 1..Len(data.plugins) :
             /\ fetchSt[k].st = "settled"
             /\ results[k].id = data.plugins[k].id
             /\ ~Failed(k) =>
                   /\ data.plugins[k].downloadCount = TotalCount(remote[k].releases)
                   /\ pluginsFile.doc.plugins[k].downloadCount
                        = TotalCount(remote[k].releases)

C7_Witness ==
  /\ RunDone
  /\ Len(results) > CONCURRENCY
  /\ results[1].error = "norepo"
  /\ results[2].error = "body"
  /\ results[3].error = "request"
  /\ results[4].error = "none" /\ data.plugins[4].downloadCount = 2
  /\ results[CONCURRENCY].error = "request"
  /\ results[CONCURRENCY + 1].error = "none"
  /\ data.plugins[CONCURRENCY + 1].downloadCount = 1

\* C9: the merger's output has main's top-level fields and, per plugin, main's id,
\* version, downloadUrl and updateTime; a reconciler run keeps the top-level fields,
\* the list's length and order and each plugin's id, version and downloadUrl, and
\* without the stamp flag each plugin's updateTime.
SameFrame(p, q) == p.id = q.id /\ p.version = q.version /\ p.downloadUrl = q.downloadUrl

MergeFrame ==
  MergeWrote =>
    /\ outputFile.doc.meta = mainFile.doc.meta
    /\ Len(OutPlugins) = Len(MainPlugins)
    /\ \A k \in 1..Len(OutPlugins) :
          /\ SameFrame(OutPlugins[k], MainPlugins[k])
          /\ OutPlugins[k].updateTime = MainPlugins[k].updateTime

DocFrame(d, stamped) ==
  /\ d.meta = fileBefore.doc.meta
  /\ d.hasPlugins = fileBefore.doc.hasPlugins
  /\ Len(d.plugins) = Len(BeforePlugins)
  /\ \A k \in 1..Len(d.plugins) :
        /\ SameFrame(d.plugins[k], BeforePlugins[k])
        /\ ~stamped => d.plugins[k].updateTime = BeforePlugins[k].updateTime

ReconcileFrame ==
  /\ pluginsFile.kind = fileBefore.kind
  /\ (run > 0 /\ fileBefore.kind = "doc") =>
        /\ DocFrame(pluginsFile.doc, updatePluginTime)
        /\ DocFrame(data, updatePluginTime)

\* C9 (field preservation): both frames.
C9_FieldPreservation == MergeFrame /\ ReconcileFrame

C9_Witness ==
  /\ Applied
  /\ ~updatePluginTime
  /\ writes = 1
  /\ pluginsFile # fileBefore
  /\ Len(data.plugins) = 2
  /\ \E k \in 1..2 : pluginsFile.doc.plugins[k].updateTime # NoTime
  /\ \E k \in 1..2 : pluginsFile.doc.plugins[k].downloadUrl = OtherHostUrl

\* C10 as claimed: in a stamped run the plugins whose fetch succeeded, and only
\* those, get the run's timestamp; a plugin whose fetch failed keeps its updateTime.
StampedRun == Applied /\ updatePluginTime

C10_StampOnlySucceeded ==
  StampedRun =>
    \A k \in 1..Len(results) :
      IF Failed(k)
      THEN data.plugins[k].updateTime = BeforePlugins[k].updateTime
      ELSE data.plugins[k].updateTime = stampedWith

\* C10 as amended: in a stamped run on a non-empty list every plugin, its fetch failed
\* or not, gets the one timestamp taken in that run (now + 8 h), and the document is
\* written even if no count changed.
C10_StampAll ==
  StampedRun =>
    /\ stampedWith = now + BeijingOffset
    /\ \A k \in 1..Len(results) : data.plugins[k].updateTime = stampedWith
    /\ writes = 1
    /\ pluginsFile = DocFile("indent2", data)

C10_Witness ==
  /\ StampedRun
  /\ Len(results) = 2
  /\ Failed(2)
  /\ ~Failed(1)
  /\ data.plugins[1].downloadCount = BeforePlugins[1].downloadCount
  /\ data.plugins[2].downloadCount = BeforePlugins[2].downloadCount
  /\ BeforePlugins[2].updateTime # stampedWith
  /\ pluginsFile.doc.plugins[2].updateTime = stampedWith
====
